---- MODULE Spec2Model ----
(***************************************************************************)
(* Model of emote_shuffler: SevenTvGqlClient::shuffle_set (src/lib.rs)     *)
(* and util::shuffle_slice (src/util.rs).                                  *)
(*                                                                         *)
(* One run of shuffle_set: fetch the emote set, shuffle the names, plan    *)
(* the rename operations cycle by cycle, then drain the operation list     *)
(* through rename_emote, paced by a tokio interval.                        *)
(*                                                                         *)
(* Time is counted in units of 300 ms, so the 600 ms interval period is 2  *)
(* units and tokio's 5 ms lateness tolerance is below one unit.            *)
(***************************************************************************)
EXTENDS Integers, Sequences, FiniteSets, TLC

\* ---- bounds --------------------------------------------------------------
MaxItems == 3
MaxCallDur == 3

\* ---- program constants ---------------------------------------------------
\* Duration::from_secs_f64(60.0 / 100.0), in units of 300 ms
Period == 2
\* the literal pushed as the name that opens a cycle
TempName == "temp"

\* ---- input universe ------------------------------------------------------
NamePool == {"w", "x", "y", "z", "temp"}
IdPool == <<"A", "B", "C", "D", "E", "F">>

VARIABLES
    remote,      \* the emote set held by the remote service: Seq of [id, name]
    emotes,      \* set.emotes, the snapshot fetched at line 129
    names,       \* the Vec<&str> of names, shuffled in place
    draws,       \* the idx values drawn by shuffle_slice, by loop index
    pc,          \* position of the run inside shuffle_set
    pos,         \* index of the outer `for name in names`
    first,       \* name that started the current cycle walk
    cur_target,  \* cur_target of the inner loop
    ops,         \* Vec of (source id, target name)
    renamed,     \* HashSet of names already handled by a walk
    next_op,     \* index of the op the executor loop is at
    calls,       \* rename calls issued so far, in order
    last_start,  \* the time the latest rename call began, -1 before any
    prev_start,  \* the time the rename call before it began, -1 before any
    tick_at,     \* the instant the latest interval.tick() returned, -1 before
    inflight,    \* number of rename calls awaiting their response
    now,         \* the clock
    deadline,    \* deadline of the interval's next tick
    pb_len,      \* ProgressBar length
    pb_pos,      \* ProgressBar position
    result       \* what shuffle_set returned: "none", "Ok", "Err", "panic"

vars == <<remote, emotes, names, draws, pc, pos, first, cur_target, ops,
          renamed, next_op, calls, last_start, prev_start, tick_at, inflight,
          now, deadline, pb_len, pb_pos, result>>

planVars == <<pos, first, cur_target, ops, renamed>>
execVars == <<next_op, calls, last_start, prev_start, tick_at, inflight, now,
              deadline, pb_len, pb_pos>>

\* ---- helpers -------------------------------------------------------------
Range(s) == {s[j] : j \in 1..Len(s)}

Distinct(s) == \A a, b \in 1..Len(s) : a # b => s[a] # s[b]

NameSeqs == UNION {[1..n -> NamePool] : n \in 0..MaxItems}

\* an emote set with ids fixed by position and the given names
SetOf(ns) == [j \in 1..Len(ns) |-> [id |-> IdPool[j], name |-> ns[j]]]

NamesOf(set) == [j \in 1..Len(set) |-> set[j].name]

\* ---- util::shuffle_slice -------------------------------------------------
Swap(vec, a, b) == [vec EXCEPT ![a] = vec[b], ![b] = vec[a]]

\* variant: idx is drawn from the whole slice, gen_range(0..vec.len())
ChoiceSeqsFull(n) == [1..n -> 1..n]

\* the random draws of one shuffle: choice[i] is idx for loop index i
ChoiceSeqs(n) == {c \in [1..n -> 1..n] : \A j \in 1..n : c[j] <= j}

RECURSIVE ShuffleFrom(_, _, _)
ShuffleFrom(vec, j, choice) ==
    IF j = 0 THEN vec
    ELSE ShuffleFrom(Swap(vec, choice[j], j), j - 1, choice)

shuffle_slice(vec, choice) == ShuffleFrom(vec, Len(vec), choice)

\* ---- the two HashMaps of the planner --------------------------------------
\* collect() into a HashMap keeps the last value inserted under a key
LastIndex(s, v) == CHOOSE j \in 1..Len(s) :
                      s[j] = v /\ \A l \in (j + 1)..Len(s) : s[l] # v

\* map: target name is key, original name is value
map_get(t) == emotes[LastIndex(names, t)].name

\* emotes: maps original name to id
emotes_get(n) == emotes[LastIndex(NamesOf(emotes), n)].id

\* ---- the ops the planner pushes -------------------------------------------
\* variant: opens the walk at the item that is to receive the name
OpenOpReceiver(f) == <<emotes_get(map_get(f)), TempName>>

OpenOp(f) == <<emotes_get(f), TempName>>

\* variant: renames the holder of the target name instead of the receiver
PullOpHolder(original, target) == <<emotes_get(target), original>>

PullOp(original, target) == <<emotes_get(original), target>>

\* variant: closes the walk with the starting name
CloseOpFirst(f, target) == <<emotes_get(f), f>>

CloseOp(f, target) == <<emotes_get(f), target>>

\* ---- applying rename operations to a set ----------------------------------
ApplyOp(set, op) ==
    [j \in 1..Len(set) |->
        IF set[j].id = op[1] THEN [set[j] EXCEPT !.name = op[2]] ELSE set[j]]

RECURSIVE ApplyOps(_, _)
ApplyOps(set, os) ==
    IF os = <<>> THEN set
    ELSE ApplyOps(ApplyOp(set, Head(os)), Tail(os))

\* the remote service keeps names unique: it refuses a name another item holds
RemoteAccepts(op) ==
    \A j \in 1..Len(remote) :
        remote[j].name = op[2] => remote[j].id = op[1]

\* ---- initial state ---------------------------------------------------------
Init ==
    /\ \E ns \in {s \in NameSeqs : Distinct(s)} : remote = SetOf(ns)
    /\ emotes = <<>>
    /\ names = <<>>
    /\ draws = <<>>
    /\ pc = "fetch"
    /\ pos = 1
    /\ first = ""
    /\ cur_target = ""
    /\ ops = <<>>
    /\ renamed = {}
    /\ next_op = 1
    /\ calls = <<>>
    /\ last_start = -1
    /\ prev_start = -1
    /\ tick_at = -1
    /\ inflight = 0
    /\ now = 0
    /\ deadline = 0
    /\ pb_len = 0
    /\ pb_pos = 0
    /\ result = "none"

\* ---- get_emote_set ---------------------------------------------------------
FetchOk ==
    /\ pc = "fetch"
    /\ emotes' = remote
    /\ names' = NamesOf(remote)
    /\ pc' = "shuffle"
    /\ UNCHANGED <<remote, draws, result>>
    /\ UNCHANGED planVars
    /\ UNCHANGED execVars

\* send() or json() fails: `?` returns the RequestError
FetchErr ==
    /\ pc = "fetch"
    /\ pc' = "failed"
    /\ result' = "Err"
    /\ UNCHANGED <<remote, emotes, names, draws>>
    /\ UNCHANGED planVars
    /\ UNCHANGED execVars

\* the response carries no data: response_body.data.unwrap() panics
FetchNoData ==
    /\ pc = "fetch"
    /\ pc' = "panicked"
    /\ result' = "panic"
    /\ UNCHANGED <<remote, emotes, names, draws>>
    /\ UNCHANGED planVars
    /\ UNCHANGED execVars

\* variant: no early return for an empty name list
ShuffleNoEmptyCheck ==
    /\ pc = "shuffle"
    /\ \E choice \in ChoiceSeqs(Len(names)) :
           /\ names' = shuffle_slice(names, choice)
           /\ draws' = choice
    /\ pc' = "scan"
    /\ UNCHANGED <<remote, emotes, result>>
    /\ UNCHANGED planVars
    /\ UNCHANGED execVars

\* ---- names.is_empty() / shuffle_slice(&mut names) ---------------------------
Shuffle ==
    /\ pc = "shuffle"
    /\ IF names = <<>>
       THEN /\ pc' = "done"
            /\ result' = "Ok"
            /\ UNCHANGED <<names, draws>>
       ELSE /\ \E choice \in ChoiceSeqs(Len(names)) :
                   /\ names' = shuffle_slice(names, choice)
                   /\ draws' = choice
            /\ pc' = "scan"
            /\ result' = result
    /\ UNCHANGED <<remote, emotes>>
    /\ UNCHANGED planVars
    /\ UNCHANGED execVars

\* ---- the planner: for name in names { ... } ---------------------------------
\* variant: the scan does not consult `renamed`
ScanStepNoSkip ==
    /\ pc = "scan"
    /\ pos <= Len(names)
    /\ first' = names[pos]
    /\ ops' = Append(ops, OpenOp(names[pos]))
    /\ cur_target' = names[pos]
    /\ pc' = "walk"
    /\ pos' = pos
    /\ UNCHANGED <<remote, emotes, names, draws, renamed, result>>
    /\ UNCHANGED execVars

\* one iteration head of the outer loop
ScanStep ==
    /\ pc = "scan"
    /\ pos <= Len(names)
    /\ IF names[pos] \in renamed
       THEN /\ pos' = pos + 1
            /\ UNCHANGED <<pc, first, cur_target, ops>>
       ELSE /\ first' = names[pos]
            /\ ops' = Append(ops, OpenOp(names[pos]))
            /\ cur_target' = names[pos]
            /\ pc' = "walk"
            /\ pos' = pos
    /\ UNCHANGED <<remote, emotes, names, draws, renamed, result>>
    /\ UNCHANGED execVars

\* variant: the `cur_target == *original` test comes before the closing test
WalkStepGuardFirst ==
    /\ pc = "walk"
    /\ LET original == map_get(cur_target) IN
         IF cur_target = original
         THEN UNCHANGED <<ops, pc, pos, cur_target, renamed>>
         ELSE IF original = first
         THEN /\ ops' = Append(ops, CloseOp(first, cur_target))
              /\ pc' = "scan"
              /\ pos' = pos + 1
              /\ UNCHANGED <<cur_target, renamed>>
         ELSE /\ ops' = Append(ops, PullOp(original, cur_target))
              /\ cur_target' = original
              /\ renamed' = renamed \cup {original}
              /\ UNCHANGED <<pc, pos>>
    /\ UNCHANGED <<remote, emotes, names, draws, first, result>>
    /\ UNCHANGED execVars

\* variant: the walk does not record the names it has handled
WalkStepNoMark ==
    /\ pc = "walk"
    /\ LET original == map_get(cur_target) IN
         IF original = first
         THEN /\ ops' = Append(ops, CloseOp(first, cur_target))
              /\ pc' = "scan"
              /\ pos' = pos + 1
              /\ UNCHANGED <<cur_target, renamed>>
         ELSE IF cur_target = original
         THEN UNCHANGED <<ops, pc, pos, cur_target, renamed>>
         ELSE /\ ops' = Append(ops, PullOp(original, cur_target))
              /\ cur_target' = original
              /\ UNCHANGED <<pc, pos, renamed>>
    /\ UNCHANGED <<remote, emotes, names, draws, first, result>>
    /\ UNCHANGED execVars

\* one iteration of the inner `loop`
WalkStep ==
    /\ pc = "walk"
    /\ LET original == map_get(cur_target) IN
         IF original = first
         THEN /\ ops' = Append(ops, CloseOp(first, cur_target))
              /\ pc' = "scan"
              /\ pos' = pos + 1
              /\ UNCHANGED <<cur_target, renamed>>
         ELSE IF cur_target = original
         THEN UNCHANGED <<ops, pc, pos, cur_target, renamed>>
         ELSE /\ ops' = Append(ops, PullOp(original, cur_target))
              /\ cur_target' = original
              /\ renamed' = renamed \cup {original}
              /\ UNCHANGED <<pc, pos>>
    /\ UNCHANGED <<remote, emotes, names, draws, first, result>>
    /\ UNCHANGED execVars

\* the outer loop is exhausted: interval and progress bar are created
ScanEnd ==
    /\ pc = "scan"
    /\ pos > Len(names)
    /\ deadline' = now
    /\ pb_len' = Len(ops)
    /\ pb_pos' = 0
    /\ pc' = "tick"
    /\ UNCHANGED <<remote, emotes, names, draws, result>>
    /\ UNCHANGED planVars
    /\ UNCHANGED <<next_op, calls, last_start, prev_start, tick_at, inflight,
                   now>>

\* ---- the executor: for (source, target) in ops { ... } ----------------------
\* variant: MissedTickBehavior::Burst, the default when line 178 is absent
NextDeadlineBurst(timeout, at) == timeout + Period

\* MissedTickBehavior::Skip: the next tick is the next multiple of the period
\* after `at`, counted from the missed deadline
NextDeadline(timeout, at) ==
    IF at > timeout
    THEN at + Period - ((at - timeout) % Period)
    ELSE timeout + Period

\* interval.tick().await completes and rename_emote sends its request
TickFire ==
    /\ pc = "tick"
    /\ next_op <= Len(ops)
    /\ now >= deadline
    /\ deadline' = NextDeadline(deadline, now)
    /\ calls' = Append(calls, ops[next_op])
    /\ last_start' = now
    /\ prev_start' = last_start
    /\ tick_at' = deadline
    /\ inflight' = inflight + 1
    /\ pc' = "call"
    /\ UNCHANGED <<remote, emotes, names, draws, result, next_op, now, pb_len,
                   pb_pos>>
    /\ UNCHANGED planVars

\* rename_emote returns Ok(()): the remote applied the rename; pb.inc(1)
RenameOk ==
    /\ pc = "call"
    /\ RemoteAccepts(ops[next_op])
    /\ remote' = ApplyOp(remote, ops[next_op])
    /\ inflight' = inflight - 1
    /\ pb_pos' = pb_pos + 1
    /\ next_op' = next_op + 1
    /\ pc' = "tick"
    /\ UNCHANGED <<emotes, names, draws, result, calls, last_start,
                   prev_start, tick_at, now, deadline, pb_len>>
    /\ UNCHANGED planVars

\* variant: the error is recorded and the loop goes on with the next op
RenameErrSwallow ==
    /\ pc = "call"
    /\ inflight' = inflight - 1
    /\ result' = "Err"
    /\ next_op' = next_op + 1
    /\ pc' = "tick"
    /\ UNCHANGED <<remote, emotes, names, draws, calls, last_start,
                   prev_start, tick_at, now, deadline, pb_len, pb_pos>>
    /\ UNCHANGED planVars

\* variant: the failed op is tried again at the next tick
RenameErrRetry ==
    /\ pc = "call"
    /\ inflight' = inflight - 1
    /\ pc' = "tick"
    /\ UNCHANGED <<remote, emotes, names, draws, result, next_op, calls,
                   last_start, prev_start, tick_at, now, deadline, pb_len,
                   pb_pos>>
    /\ UNCHANGED planVars

\* variant: the progress bar also advances for the failed call
RenameErrInc ==
    /\ pc = "call"
    /\ inflight' = inflight - 1
    /\ pb_pos' = pb_pos + 1
    /\ result' = "Err"
    /\ pc' = "failed"
    /\ UNCHANGED <<remote, emotes, names, draws, next_op, calls, last_start,
                   prev_start, tick_at, now, deadline, pb_len>>
    /\ UNCHANGED planVars

\* rename_emote returns Err (request error or errors in the response):
\* `?` returns it from shuffle_set
RenameErr ==
    /\ pc = "call"
    /\ inflight' = inflight - 1
    /\ result' = "Err"
    /\ pc' = "failed"
    /\ UNCHANGED <<remote, emotes, names, draws, next_op, calls, last_start,
                   prev_start, tick_at, now, deadline, pb_len, pb_pos>>
    /\ UNCHANGED planVars

\* the op list is drained: pb.finish(); Ok(())
Finish ==
    /\ pc = "tick"
    /\ next_op > Len(ops)
    /\ result' = "Ok"
    /\ pc' = "done"
    /\ UNCHANGED <<remote, emotes, names, draws>>
    /\ UNCHANGED planVars
    /\ UNCHANGED execVars

\* time passes while the run is suspended at an await
Elapse ==
    /\ \/ pc = "tick" /\ next_op <= Len(ops) /\ now < deadline
       \/ pc = "call" /\ now - last_start < MaxCallDur
    /\ now' = now + 1
    /\ UNCHANGED <<remote, emotes, names, draws, pc, result, next_op, calls,
                   last_start, prev_start, tick_at, inflight, deadline,
                   pb_len, pb_pos>>
    /\ UNCHANGED planVars

Next ==
    \/ FetchOk
    \/ FetchErr
    \/ FetchNoData
    \/ Shuffle
    \/ ScanStep
    \/ WalkStep
    \/ ScanEnd
    \/ TickFire
    \/ RenameOk
    \/ RenameErr
    \/ Finish
    \/ Elapse

Spec == Init /\ [][Next]_vars

\* the planner alone, from the fetched set to the finished op list; the
\* planner is straight-line synchronous code, so each of its steps is taken
\* once it is possible
PlanNext ==
    \/ FetchOk
    \/ Shuffle
    \/ ScanStep
    \/ WalkStep
    \/ ScanEnd

PlanSpec ==
    /\ Init
    /\ [][PlanNext]_vars
    /\ WF_vars(ScanStep)
    /\ WF_vars(WalkStep)
    /\ WF_vars(ScanEnd)

TypeOK ==
    /\ pc \in {"fetch", "shuffle", "scan", "walk", "tick", "call",
               "done", "failed", "panicked"}
    /\ result \in {"none", "Ok", "Err", "panic"}
    /\ inflight \in 0..1
    /\ (calls = <<>>) = (last_start = -1)
    /\ prev_start <= last_start
    /\ deadline % Period = 0

\* ---- properties -------------------------------------------------------------
\* the planner has produced the whole op list
Planned ==
    /\ pc \in {"tick", "call", "done", "failed"}
    /\ emotes # <<>>

Prefix(os, n) == SubSeq(os, 1, n)

\* position of the item whose current name is the target name of position j
SourcePos(j) == CHOOSE l \in 1..Len(emotes) : emotes[l].name = names[j]

RECURSIVE OrbitFrom(_, _)
OrbitFrom(j, seen) ==
    IF j \in seen THEN seen ELSE OrbitFrom(SourcePos(j), seen \cup {j})

Orbit(j) == OrbitFrom(j, {})

NontrivialCycles ==
    Cardinality({Orbit(j) : j \in {l \in 1..Len(emotes) :
                                      Cardinality(Orbit(l)) >= 2}})

\* C1: applied in order from the original state, no prefix of the planned ops
\* leaves two items holding the same name
NoPrefixCollision ==
    \A n \in 0..Len(ops) : Distinct(NamesOf(ApplyOps(emotes, Prefix(ops, n))))

\* C2: applying all planned ops in order ends in the target assignment: the
\* item at position i holds permuted_names[i]; a run that returned Ok left
\* the remote set in that assignment
FinalIsTarget ==
    /\ Planned => NamesOf(ApplyOps(emotes, ops)) = names
    /\ (pc = "done" /\ emotes # <<>>) => NamesOf(remote) = names

FinalIsTargetWitness ==
    /\ pc = "done"
    /\ Len(emotes) = 3
    /\ \A j \in 1..3 : names[j] # emotes[j].name
    /\ NamesOf(remote) = names

\* C3: an item whose target name equals its current name is the target_id of
\* no planned op
FixedPointNoOps ==
    Planned =>
        \A j \in 1..Len(emotes) :
            names[j] = emotes[j].name =>
                \A o \in 1..Len(ops) : ops[o][1] # emotes[j].id

\* C4: the name that opens a cycle differs from every current name and every
\* target name of the set
PlaceholderFresh ==
    (pc = "walk" /\ cur_target = first) =>
        ops[Len(ops)][2] \notin (Range(NamesOf(emotes)) \cup Range(names))

\* C5: once the k-th rename call has failed the run has returned the error,
\* no call is in flight, no further call is issued, and the remote set is the
\* original set with exactly the first k-1 planned ops applied
FailureStopsRun ==
    /\ [](result = "Err" /\ calls # <<>> =>
            /\ pc = "failed"
            /\ inflight = 0
            /\ Len(calls) = next_op
            /\ remote = ApplyOps(emotes, Prefix(ops, Len(calls) - 1)))
    /\ [][result = "Err" => calls' = calls /\ remote' = remote]_vars

FailureStopsRunWitness ==
    /\ pc = "failed"
    /\ result = "Err"
    /\ Len(calls) = 3
    /\ remote # emotes
    /\ remote = ApplyOps(emotes, Prefix(ops, 2))

\* C6: the calls issued so far are a prefix of the planned ops, none skipped
\* and none issued twice, at most one call is in flight, and a call starts
\* only when no call is in flight
CallsArePrefix ==
    /\ [](/\ calls = Prefix(ops, Len(calls))
          /\ inflight <= 1
          /\ Len(calls) \in {next_op - 1, next_op}
          /\ inflight = 1 => Len(calls) = next_op)
    /\ [][Len(calls') > Len(calls) =>
            inflight = 0 /\ calls' = Append(calls, ops[Len(calls) + 1])]_vars

CallsArePrefixWitness ==
    /\ pc = "call"
    /\ Len(calls) = 4
    /\ inflight = 1
    /\ calls = Prefix(ops, 4)

\* C7: the number of planned ops is at most n + c, c the number of cycles of
\* length >= 2 of the permutation
OpsAtMostNPlusC ==
    Planned => Len(ops) <= Len(emotes) + NontrivialCycles

\* C8: every rename call after the first begins at least one pacing period
\* after the previous rename call began
PacingGap ==
    Len(calls) >= 2 => last_start - prev_start >= Period

\* C9 as stated: the single swap plans (A, temp), (B, "x"), (A, "y")
SingleSwapAsStated ==
    (Planned /\ emotes = SetOf(<<"x", "y">>) /\ names = <<"y", "x">>) =>
        ops = << <<"A", TempName>>, <<"B", "x">>, <<"A", "y">> >>

\* C9: the single swap plans exactly (B, temp), (A, "y"), (B, "x"), the walk
\* opening at the holder of the first target name, and ends in A="y", B="x"
SingleSwapOps ==
    (Planned /\ emotes = SetOf(<<"x", "y">>) /\ names = <<"y", "x">>) =>
        /\ ops = << <<"B", TempName>>, <<"A", "y">>, <<"B", "x">> >>
        /\ NamesOf(ApplyOps(emotes, ops)) = <<"y", "x">>

SingleSwapWitness ==
    /\ pc = "done"
    /\ emotes = SetOf(<<"x", "y">>)
    /\ names = <<"y", "x">>
    /\ Len(ops) = 3
    /\ remote = SetOf(<<"y", "x">>)

\* C10 as stated: the three-cycle plans A to temp, B into "x", C into "y",
\* A into "z"
ThreeCycleAsStated ==
    (Planned /\ emotes = SetOf(<<"x", "y", "z">>)
             /\ names = <<"y", "z", "x">>) =>
        ops = << <<"A", TempName>>, <<"B", "x">>, <<"C", "y">>, <<"A", "z">> >>

\* C10: the three-cycle plans exactly 4 ops, B to temp, A into "y", C into
\* "x", B into "z"; applied in order they reach the target with no two items
\* sharing a name after any prefix
ThreeCycleOps ==
    (Planned /\ emotes = SetOf(<<"x", "y", "z">>)
             /\ names = <<"y", "z", "x">>) =>
        /\ ops = << <<"B", TempName>>, <<"A", "y">>, <<"C", "x">>,
                    <<"B", "z">> >>
        /\ NamesOf(ApplyOps(emotes, ops)) = names
        /\ \A n \in 0..Len(ops) :
               Distinct(NamesOf(ApplyOps(emotes, Prefix(ops, n))))

ThreeCycleWitness ==
    /\ pc = "done"
    /\ emotes = SetOf(<<"x", "y", "z">>)
    /\ names = <<"y", "z", "x">>
    /\ Len(ops) = 4
    /\ remote = SetOf(<<"y", "z", "x">>)

\* C11: for an empty item list the run returns Ok straight from the emptiness
\* test: no op is planned, no rename call issued, no progress reported, and
\* neither the planner nor the executor is entered
EmptySetReturnsAtOnce ==
    (remote = <<>> /\ pc \notin {"fetch", "failed", "panicked"}) =>
        /\ pc \in {"shuffle", "done"}
        /\ pc = "done" => result = "Ok"
        /\ ops = <<>>
        /\ calls = <<>>
        /\ pb_pos = 0
        /\ pb_len = 0

EmptySetWitness ==
    /\ remote = <<>>
    /\ emotes = <<>>
    /\ pc = "done"
    /\ result = "Ok"
    /\ calls = <<>>

\* C12: a failed set fetch is returned to the caller as an error value, never
\* a panic, and no rename call is issued
FetchFailureIsErr ==
    (pc \in {"failed", "panicked"} /\ calls = <<>> /\ ops = <<>>) =>
        /\ result = "Err"
        /\ pc = "failed"

\* number of rename calls that have returned Ok
Succeeded ==
    Len(calls) - inflight - (IF pc = "failed" /\ calls # <<>> THEN 1 ELSE 0)

\* C13: during an executor run the progress position is the number of rename
\* calls that returned Ok, the remote set is the snapshot with exactly that
\* many planned ops applied, and the progress length is the planned op count
ProgressCountsSuccesses ==
    Planned =>
        /\ pb_len = Len(ops)
        /\ pb_pos = Succeeded
        /\ remote = ApplyOps(emotes, Prefix(ops, pb_pos))
        /\ calls = Prefix(ops, Len(calls))

ProgressWitness ==
    /\ pc = "failed"
    /\ Len(calls) = 3
    /\ pb_pos = 2
    /\ pb_len = 4

\* C14: the number of planned ops never exceeds twice the set size
OpsAtMostTwiceN ==
    Len(ops) <= 2 * Len(emotes)

OpsAtMostTwiceNWitness ==
    /\ Planned
    /\ Len(emotes) = 3
    /\ Len(ops) = 6

\* C15: the planner terminates: once the scan has begun the op list is
\* eventually complete, and no walk step meets `cur_target == original`
\* without first meeting the closing test
PlannerTerminates ==
    /\ [](pc = "walk" =>
            (map_get(cur_target) = cur_target => cur_target = first))
    /\ (pc = "scan" ~> pc = "tick")

PlannerTerminatesWitness ==
    /\ pc = "tick"
    /\ Len(emotes) = 3
    /\ \E j \in 1..3 : names[j] = emotes[j].name
    /\ \E j \in 1..3 : names[j] # emotes[j].name
    /\ Len(ops) = 5

\* the name the item `id` holds in `set`
NameOfId(set, id) == set[CHOOSE j \in 1..Len(set) : set[j].id = id].name

\* C16: every planned op that is not a rename to the TempName assigns the
\* name the preceding op's item held just before that preceding op, and no
\* item holds that name when the op is applied; the first op is always a
\* rename to the TempName
PullsJustVacatedName ==
    \A o \in 1..Len(ops) :
        ops[o][2] # TempName =>
            /\ o > 1
            /\ LET before == ApplyOps(emotes, Prefix(ops, o - 2))
                   at == ApplyOps(emotes, Prefix(ops, o - 1))
               IN /\ NameOfId(before, ops[o - 1][1]) = ops[o][2]
                  /\ \A j \in 1..Len(at) : at[j].name # ops[o][2]

PullsJustVacatedWitness ==
    /\ Planned
    /\ Len(emotes) = 3
    /\ Len(ops) = 4
    /\ \A o \in 2..4 : ops[o][2] # TempName
    /\ TempName \notin Range(names)

\* all cycles of the permutation, those of length 1 included
Cycles == {Orbit(j) : j \in 1..Len(emotes)}

MinOf(S) == CHOOSE m \in S : \A l \in S : m <= l

\* the item a walk opens: the holder of the cycle's first name in scan order
Starters == {SourcePos(MinOf(O)) : O \in Cycles}

OpsOn(id) == {o \in 1..Len(ops) : ops[o][1] = id}

\* C19: the plan has exactly n + k ops, k the number of cycles counting those
\* of length 1; the item that starts a walk is renamed exactly twice, to the
\* placeholder and later to its final name, every other item exactly once,
\* to its final name
ExactOpCount ==
    Planned =>
        /\ Len(ops) = Len(emotes) + Cardinality(Cycles)
        /\ \A j \in 1..Len(emotes) :
             LET on == OpsOn(emotes[j].id) IN
               IF j \in Starters
               THEN /\ Cardinality(on) = 2
                    /\ ops[MinOf(on)][2] = TempName
                    /\ \E o \in on : o > MinOf(on) /\ ops[o][2] = names[j]
               ELSE /\ Cardinality(on) = 1
                    /\ ops[MinOf(on)][2] = names[j]

ExactOpCountWitness ==
    /\ Planned
    /\ Len(emotes) = 3
    /\ Cardinality(Cycles) = 2
    /\ Len(ops) = 5
    /\ Cardinality(Starters) = 2

HeldNames(set) == Range(NamesOf(set))

Holders(set, n) == {j \in 1..Len(set) : set[j].name = n}

\* C20: for a set whose names differ from the placeholder, after every prefix
\* of the ops at most one item holds the placeholder and at most one original
\* name is held by no item; at the end of each cycle and of the plan no item
\* holds the placeholder and the held names are the original names
NoNameLost ==
    TempName \notin HeldNames(emotes) =>
        /\ \A n \in 0..Len(ops) :
             LET s == ApplyOps(emotes, Prefix(ops, n)) IN
               /\ Cardinality(Holders(s, TempName)) <= 1
               /\ Cardinality(HeldNames(emotes) \ HeldNames(s)) <= 1
        /\ (pc = "scan" \/ Planned) =>
             LET s == ApplyOps(emotes, ops) IN
               /\ Holders(s, TempName) = {}
               /\ HeldNames(s) = HeldNames(emotes)

NoNameLostWitness ==
    /\ pc = "scan"
    /\ Len(emotes) = 3
    /\ TempName \notin HeldNames(emotes)
    /\ Len(ops) = 3
    /\ pos = 2
    /\ NamesOf(ApplyOps(emotes, ops)) # NamesOf(emotes)

\* C17: missed ticks are dropped: when a rename call begins the next tick lies
\* strictly in the future, so every later call consumes a tick scheduled
\* after the previous call began and no two calls run on stale ticks
MissedTicksDropped ==
    /\ calls # <<>> => (tick_at <= last_start /\ deadline > last_start)
    /\ Len(calls) >= 2 => (tick_at > prev_start /\ last_start > prev_start)

\* a call that overran its period, the next call begun at once on the missed
\* tick, and the run now waiting for a tick still to come
MissedTicksDroppedWitness ==
    /\ pc = "tick"
    /\ Len(calls) = 2
    /\ next_op <= Len(ops)
    /\ last_start - prev_start > Period
    /\ tick_at < last_start
    /\ now < deadline

\* the orderings of a vector of distinct elements
Orderings(vec) ==
    {t \in [1..Len(vec) -> Range(vec)] : Range(t) = Range(vec)}

Count(vec, v) == Cardinality({j \in 1..Len(vec) : vec[j] = v})

IsReordering(a, b) ==
    /\ Len(a) = Len(b)
    /\ \A v \in Range(a) \cup Range(b) : Count(a, v) = Count(b, v)

DrawsGiving(vec, p) ==
    {c \in ChoiceSeqs(Len(vec)) : shuffle_slice(vec, c) = p}

\* C18: shuffle_slice returns a reordering of its input, and for distinct
\* elements every ordering comes from exactly one sequence of draws
ShuffleIsUniform ==
    /\ pc = "shuffle" =>
         /\ \A c \in ChoiceSeqs(Len(names)) :
                IsReordering(shuffle_slice(names, c), names)
         /\ \A p \in Orderings(names) :
                Cardinality(DrawsGiving(names, p)) = 1
    /\ draws # <<>> =>
         /\ IsReordering(names, NamesOf(emotes))
         /\ DrawsGiving(NamesOf(emotes), names) = {draws}

ShuffleIsUniformWitness ==
    /\ pc = "scan"
    /\ Len(names) = 3
    /\ draws = <<1, 1, 2>>
    /\ names # NamesOf(emotes)
====
